---- MODULE Spec2Model ----
(***************************************************************************)
(* Plookup vector lookup argument of gnark-crypto                          *)
(* (ecc/bn254/fr/plookup/vector.go): ProveLookupVector and                 *)
(* VerifyLookupVector, over a scaled-down prime field; with the methods    *)
(* of E6 of ecc/bls24-315 (fuzz.go).                                       *)
(*                                                                         *)
(* Slices are modelled as 0-indexed arrays (functions on 0..n-1) so that   *)
(* every index expression reads as in the Go source.                       *)
(*                                                                         *)
(* The packages fr, fft, kzg and fiat-shamir are not part of the analysed  *)
(* sources; they are modelled from their contracts:                        *)
(*   - fr   : the prime field F_P (P = 17, 2-adicity 4);                   *)
(*   - fft  : power-of-two multiplicative subgroups, (i)FFT as             *)
(*            evaluation / interpolation, with the bit-reversed storage    *)
(*            the callers index into;                                      *)
(*   - kzg  : an ideal binding commitment (a digest determines its         *)
(*            polynomial; an opening verifies iff its claimed values are   *)
(*            the evaluations at the opening's own point and the witness   *)
(*            is the quotient by (X - point));                             *)
(*   - fiat-shamir : a random oracle, lazily sampled and recorded.         *)
(***************************************************************************)
EXTENDS Integers, Sequences, FiniteSets, TLC

\* ------------------------------------------------------------------ bounds
MaxLenF == 2
MaxLenT == 3
MaxVal == 2
MaxChal == 2
MaxSrs == 8

\* ------------------------------------------------------------------ fr
P == 17

F == 0..(P - 1)

FAdd(a, b) == (a + b) % P
FSub(a, b) == (a - b + P) % P
FMul(a, b) == (a * b) % P
FNeg(a) == (P - a) % P

RECURSIVE FExp(_, _)
FExp(a, n) == IF n = 0 THEN 1 ELSE FMul(a, FExp(a, n - 1))

\* fr.Element.Inverse: the inverse, and 0 for 0
InvTable == [a \in F |-> FExp(a, P - 2)]
FInv(a) == InvTable[a]
FDiv(a, b) == FMul(a, FInv(b))

\* fr.Element.Cmp on regular (non-Montgomery) values
Cmp(a, b) == IF a < b THEN -1 ELSE IF a > b THEN 1 ELSE 0

\* ------------------------------------------------------------------ slices
Len0(a) == Cardinality(DOMAIN a)

\* the array a, evaluated once (a slice holds values, not a recipe for them)
Force(a) == IF a = a THEN a ELSE a
Empty == [i \in {} |-> 0]
Slice(a, lo, hi) == [i \in 0..(hi - lo - 1) |-> a[lo + i]]
Range0(a) == {a[i] : i \in DOMAIN a}

\* fr.BatchInvert: element-wise inverses, zeros are left as zeros
BatchInvert(d) == [i \in DOMAIN d |-> FInv(d[i])]

\* Table.Less
Less(t, i, j) == Cmp(t[i], t[j]) = -1

\* sort.Sort(Table(a)): insertion of a[k] into the sorted prefix, by Less
RECURSIVE InsertSorted(_, _)
InsertSorted(s, v) ==
    IF Len0(s) = 0 THEN [i \in 0..0 |-> v]
    ELSE LET n == Len0(s)
             last == s[n - 1]
         IN IF Cmp(v, last) = -1
            THEN LET r == InsertSorted(Slice(s, 0, n - 1), v)
                 IN [i \in 0..n |-> IF i < n THEN r[i] ELSE last]
            ELSE [i \in 0..n |-> IF i < n THEN s[i] ELSE v]

RECURSIVE SortPrefix(_, _)
SortPrefix(a, k) ==
    IF k = 0 THEN Empty ELSE InsertSorted(SortPrefix(a, k - 1), a[k - 1])

SortTable(a) == SortPrefix(a, Len0(a))

\* ------------------------------------------------------------------ fft
RootOfUnity == 3
MaxOrder == 4
FrMultiplicativeGen == 3

RECURSIVE Pow2(_)
Pow2(k) == IF k = 0 THEN 1 ELSE 2 * Pow2(k - 1)

RECURSIVE NextPow2From(_, _)
NextPow2From(p, n) == IF p >= n THEN p ELSE NextPow2From(2 * p, n)

\* ecc.NextPowerOfTwo
NextPowerOfTwo(n) == NextPow2From(1, n)

RECURSIVE Log2(_)
Log2(c) == IF c <= 1 THEN 0 ELSE 1 + Log2(c \div 2)

\* fft.NewDomain(m): cardinality, generator of the subgroup, coset shift
NewDomain(m) ==
    LET c == NextPowerOfTwo(m)
    IN [Cardinality |-> c,
        Generator |-> FExp(RootOfUnity, Pow2(MaxOrder - Log2(c))),
        FrMultiplicativeGen |-> FrMultiplicativeGen]

\* bits.Reverse64(i) >> (64 - log2(card)): reversal of the low log2(card) bits
RECURSIVE RevBits(_, _)
RevBits(i, nbits) ==
    IF nbits = 0 THEN 0
    ELSE (i % 2) * Pow2(nbits - 1) + RevBits(i \div 2, nbits - 1)

BitRev(i, card) == RevBits(i, Log2(card))

\* polynomial evaluation (Horner) of canonical coefficients c at x
RECURSIVE EvalFrom(_, _, _)
EvalFrom(c, x, k) ==
    IF k >= Len0(c) THEN 0 ELSE FAdd(c[k], FMul(x, EvalFrom(c, x, k + 1)))

Eval(c, x) == EvalFrom(c, x, 0)

RECURSIVE SumTo(_, _)
SumTo(Op(_), n) == IF n = 0 THEN 0 ELSE FAdd(Op(n - 1), SumTo(Op, n - 1))

\* domain.FFTInverse(v, fft.DIF) followed by fft.BitReverse(v): the canonical
\* coefficients (natural order) of the polynomial with values v on <g>
ToCanonical(v, d) ==
    LET n == d.Cardinality
        ninv == FInv(n % P)
        ginv == FInv(d.Generator)
    IN [k \in 0..(n - 1) |->
          LET Term(j) == FMul(v[j], FExp(ginv, (j * k) % n))
          IN FMul(ninv, SumTo(Term, n))]

\* domainBig.FFT(c, fft.DIF, true): evaluations of c on the coset
\* FrMultiplicativeGen*<g>, stored in bit-reversed order
FFTCosetBitReversed(c, d) ==
    LET n == d.Cardinality
    IN [k \in 0..(n - 1) |->
          Eval(c, FMul(d.FrMultiplicativeGen, FExp(d.Generator, BitRev(k, n))))]

\* domainBig.FFTInverse(v, fft.DIT, true): v holds, in bit-reversed order, the
\* values on the coset; the result is the canonical form in natural order
FFTInverseCosetFromBitReversed(v, d) ==
    LET n == d.Cardinality
        ninv == FInv(n % P)
        ginv == FInv(d.Generator)
        uinv == FInv(d.FrMultiplicativeGen)
    IN [k \in 0..(n - 1) |->
          LET Term(j) == FMul(v[BitRev(j, n)], FExp(ginv, (j * k) % n))
          IN FMul(FExp(uinv, k), FMul(ninv, SumTo(Term, n)))]

\* ------------------------------------------------------------------ plookup
\* the denominator d[i] of evaluateAccumulationPolynomial before inversion
AccDenominator(lh1, lh2, beta, gamma, i) ==
    LET c == FMul(FAdd(1, beta), gamma)
        di == FAdd(FAdd(FMul(beta, lh1[i + 1]), lh1[i]), c)
        u == FAdd(FAdd(FMul(beta, lh2[i + 1]), lh2[i]), c)
    IN FMul(di, u)

\* the running product without its factor (1 + beta)
RECURSIVE AccZWithoutOnePlusBeta(_, _, _, _, _, _)
AccZWithoutOnePlusBeta(lf, lt, d, beta, gamma, i) ==
    IF i = 0 THEN 1
    ELSE LET k == i - 1
             c == FMul(FAdd(1, beta), gamma)
             a0 == FAdd(gamma, lf[k])
             b == FAdd(FAdd(FMul(beta, lt[k + 1]), lt[k]), c)
         IN FMul(FMul(AccZWithoutOnePlusBeta(lf, lt, d, beta, gamma, k),
                      FMul(a0, b)), d[k])

RECURSIVE AccZ(_, _, _, _, _, _)
AccZ(lf, lt, d, beta, gamma, i) ==
    IF i = 0 THEN 1
    ELSE LET k == i - 1
             c == FMul(FAdd(1, beta), gamma)
             e == FAdd(1, beta)
             a0 == FAdd(gamma, lf[k])
             b == FAdd(FAdd(FMul(beta, lt[k + 1]), lt[k]), c)
             a == FMul(FMul(a0, b), e)
         IN FMul(FMul(AccZ(lf, lt, d, beta, gamma, k), a), d[k])

\* evaluateAccumulationPolynomial with the two challenges exchanged in the
\* running product
evaluateAccumulationPolynomialSwapped(lf, lt, lh1, lh2, beta, gamma) ==
    LET n == Len0(lt)
        d == BatchInvert([i \in 0..(n - 2) |->
                             AccDenominator(lh1, lh2, beta, gamma, i)])
    IN [i \in 0..(n - 1) |-> AccZ(lf, lt, d, gamma, beta, i)]

evaluateAccumulationPolynomial(lf, lt, lh1, lh2, beta, gamma) ==
    LET n == Len0(lt)
        d == BatchInvert([i \in 0..(n - 2) |->
                             AccDenominator(lh1, lh2, beta, gamma, i)])
    IN [i \in 0..(n - 1) |-> AccZ(lf, lt, d, beta, gamma, i)]

\* the first point of the small domain in place of its last
LastPointBigIsFirst(domainBig) ==
    FExp(FMul(domainBig.Generator, domainBig.Generator),
         domainBig.Cardinality \div 2)

\* gg of evaluateNumBitReversed / evaluationLnDomainBig: square of the big
\* generator to the power (cardinality/2 - 1)
LastPointBig(domainBig) ==
    FExp(FMul(domainBig.Generator, domainBig.Generator),
         (domainBig.Cardinality \div 2) - 1)

\* g[i] of evaluateNumBitReversed, acc of evaluateL0DomainBig: the i-th point
\* of the coset
CosetPoint(domainBig, i) ==
    FMul(domainBig.FrMultiplicativeGen, FExp(domainBig.Generator, i))

evaluateNumBitReversed(lz, lh1, lh2, lt, lf, beta, gamma, domainBig) ==
    LET s == domainBig.Cardinality
        onePlusBeta == FAdd(1, beta)
        GammaTimesOnePlusBeta == FMul(onePlusBeta, gamma)
        gg == LastPointBig(domainBig)
        At(i) ==
            LET i_ == BitRev(i, s)
                is_ == BitRev((i + 2) % s, s)
                m == FMul(FMul(FMul(onePlusBeta, lz[i_]), FAdd(gamma, lf[i_])),
                          FAdd(FAdd(FMul(beta, lt[is_]), lt[i_]),
                               GammaTimesOnePlusBeta))
                n1 == FAdd(FAdd(FMul(beta, lh1[is_]), lh1[i_]),
                           GammaTimesOnePlusBeta)
                u == FAdd(FAdd(FMul(beta, lh2[is_]), lh2[i_]),
                          GammaTimesOnePlusBeta)
                n == FMul(FMul(n1, u), lz[is_])
            IN FMul(FSub(m, n), FSub(CosetPoint(domainBig, i), gg))
    IN [k \in 0..(s - 1) |-> At(BitRev(k, s))]

evaluateXnMinusOneDomainBig(domainBig) ==
    LET sizeDomainSmall == domainBig.Cardinality \div 2
        shift == FExp(domainBig.FrMultiplicativeGen, sizeDomainSmall)
    IN [i \in 0..1 |-> IF i = 0 THEN FSub(shift, 1) ELSE FNeg(FAdd(shift, 1))]

\* second result of evaluateL0DomainBig
denL0(domainBig) ==
    BatchInvert([i \in 0..(domainBig.Cardinality - 1) |->
                    FSub(CosetPoint(domainBig, i), 1)])

\* second result of evaluationLnDomainBig
denLn(domainBig) ==
    BatchInvert([i \in 0..(domainBig.Cardinality - 1) |->
                    FSub(CosetPoint(domainBig, i), LastPointBig(domainBig))])

evaluateZStartsByOneBitReversed(lsZBitReversed, domainBig) ==
    LET s == domainBig.Cardinality
        xnMinusOne == evaluateXnMinusOneDomainBig(domainBig)
        den == denL0(domainBig)
        At(i) == FMul(FMul(FSub(lsZBitReversed[BitRev(i, s)], 1),
                           xnMinusOne[i % 2]), den[i])
    IN [k \in 0..(s - 1) |-> At(BitRev(k, s))]

evaluateZEndsByOneBitReversed(lsZBitReversed, domainBig) ==
    LET s == domainBig.Cardinality
        numLn == evaluateXnMinusOneDomainBig(domainBig)
        den == denLn(domainBig)
        At(i) == FMul(FMul(FSub(lsZBitReversed[BitRev(i, s)], 1),
                           numLn[i % 2]), den[i])
    IN [k \in 0..(Len0(lsZBitReversed) - 1) |-> At(BitRev(k, s))]

evaluateOverlapH1h2BitReversed(lh1, lh2, domainBig) ==
    LET s == Len0(lh1)
        numLn == evaluateXnMinusOneDomainBig(domainBig)
        den == denLn(domainBig)
        At(i) == FMul(FMul(FSub(lh1[BitRev(i, domainBig.Cardinality)],
                                lh2[BitRev((i + 2) % s, domainBig.Cardinality)]),
                           numLn[i % 2]), den[i])
    IN [k \in 0..(s - 1) |-> At(BitRev(k, domainBig.Cardinality))]

computeQuotientCanonical(alpha, lh, lh0, lhn, lh1h2, domainBig) ==
    LET sizeDomainBig == domainBig.Cardinality
        xn == evaluateXnMinusOneDomainBig(domainBig)
        numLn == [i \in 0..1 |-> FInv(xn[i])]
        At(i) ==
            LET i_ == BitRev(i, sizeDomainBig)
            IN FMul(FAdd(FMul(FAdd(FMul(FAdd(FMul(lh1h2[i_], alpha), lhn[i_]),
                                        alpha), lh0[i_]), alpha), lh[i_]),
                    numLn[i % 2])
        res == [k \in 0..(sizeDomainBig - 1) |-> At(BitRev(k, sizeDomainBig))]
    IN FFTInverseCosetFromBitReversed(res, domainBig)

\* ------------------------------------------------------------------ kzg
\* the polynomial without its leading zero coefficients: two coefficient
\* slices of the same polynomial have the same commitment
RECURSIVE Trim(_)
Trim(c) ==
    LET n == Len0(c)
    IN IF n = 0 THEN Empty
       ELSE IF c[n - 1] # 0 THEN c ELSE Trim(Slice(c, 0, n - 1))

\* kzg.Commit(p, srs): fails on an empty polynomial and on one longer than
\* the srs; the digest of an ideal binding commitment is the polynomial
Commit(p, srsSize) ==
    IF Len0(p) = 0 \/ Len0(p) > srsSize
    THEN [err |-> "ErrInvalidPolynomialSize", digest |-> Empty]
    ELSE [err |-> "nil", digest |-> Trim(p)]

\* (p - p(z)) / (X - z), by synthetic division
QuotientLinear(c, z) ==
    Trim([k \in 0..(Len0(c) - 2) |-> EvalFrom(c, z, k + 1)])

\* kzg.BatchOpenSinglePoint(polynomials, digests, point, hFunc, domain, srs)
BatchOpenSinglePoint(polys, point) ==
    [Point |-> point,
     H |-> [i \in DOMAIN polys |-> QuotientLinear(polys[i], point)],
     ClaimedValues |-> [i \in DOMAIN polys |-> Eval(polys[i], point)]]

\* kzg.BatchVerifySinglePoint(digests, batchOpeningProof, hFunc, srs): the
\* opening is checked at the point carried by the opening proof
BatchVerifySinglePoint(digests, bp) ==
    IF Len0(digests) # Len0(bp.ClaimedValues) THEN "ErrInvalidNbDigests"
    ELSE IF /\ DOMAIN bp.H = DOMAIN digests
            /\ \A i \in DOMAIN digests :
                  /\ Eval(digests[i], bp.Point) = bp.ClaimedValues[i]
                  /\ bp.H[i] = QuotientLinear(digests[i], bp.Point)
         THEN "nil"
         ELSE "ErrVerifyOpeningProof"

\* ------------------------------------------------------------------ prover
\* the domain sized on the table alone
DomainSmallOnTable(f, t) == NewDomain(Len0(t))

\* the domain sized on len(f) in place of len(f)+1
DomainSmallNoExtraPoint(f, t) ==
    IF Len0(t) <= Len0(f) THEN NewDomain(Len0(f)) ELSE NewDomain(Len0(t))

\* ProveLookupVector, create domains
DomainSmall(f, t) ==
    IF Len0(t) <= Len0(f) THEN NewDomain(Len0(f) + 1) ELSE NewDomain(Len0(t))

\* the padding loops index a[len(a)-1]: out of range when a is empty and
\* the loop body runs
PadPanics(a, size) == Len0(a) < size /\ Len0(a) = 0

\* copy(l, a) and the padding loop
PadLast(a, size) ==
    [i \in 0..(size - 1) |-> IF i < Len0(a) THEN a[i] ELSE a[Len0(a) - 1]]

\* the padded table left in the caller's order
PaddedUnsortedTable(t, size) == PadLast(t, size)

\* lt of ProveLookupVector: padded, then sorted
PaddedSortedTable(t, size) == SortTable(PadLast(t, size))

\* proof.t of ProveLookupVector(srs, f, t)
TableDigest(f, t, srsSize) ==
    LET domainSmall == DomainSmall(f, t)
        lt == Force(PaddedSortedTable(t, domainSmall.Cardinality))
    IN Commit(ToCanonical(lt, domainSmall), srsSize).digest

\* lt followed by the first size-1 entries of lf, left as copied
SortedMergeNotSorted(lt, lf, size) ==
    [i \in 0..(2 * size - 2) |-> IF i < size THEN lt[i] ELSE lf[i - size]]

\* lfSortedByt: 2*size-1 entries, lt then the first size-1 entries of lf, sorted
SortedMerge(lt, lf, size) ==
    SortTable([i \in 0..(2 * size - 2) |->
                  IF i < size THEN lt[i] ELSE lf[i - size]])

\* copy(_l, c) into a slice of the big domain's size
Extend(c, size) == [i \in 0..(size - 1) |-> IF i < Len0(c) THEN c[i] ELSE 0]

\* ------------------------------------------------------------------ verifier
\* the polynomial relation of VerifyLookupVector: TRUE iff lnh1h2.Equal(&_g)
IdentityHolds(proof, beta, gamma, alpha, nu) ==
    LET cv == proof.BatchedProof.ClaimedValues
        cvs == proof.BatchedProofShifted.ClaimedValues
        d == NewDomain(proof.size)
        g == FExp(d.Generator, d.Cardinality - 1)
        v == FAdd(1, beta)
        w == FMul(v, gamma)
        lhs == FMul(FMul(FMul(FMul(FSub(nu, g), cv[3]), v), FAdd(gamma, cv[4])),
                    FAdd(FAdd(FMul(beta, cvs[2]), cv[2]), w))
        rhs == FMul(FMul(FMul(FSub(nu, g), cvs[3]),
                         FAdd(FAdd(FMul(beta, cvs[0]), cv[0]), w)),
                    FAdd(FAdd(FMul(beta, cvs[1]), cv[1]), w))
        xn == FSub(FExp(nu, d.Cardinality), 1)
        l0 == FDiv(xn, FSub(nu, 1))
        ln == FDiv(xn, FSub(nu, g))
        l0z == FMul(FSub(cv[3], 1), l0)
        lnz == FMul(ln, FSub(cv[3], 1))
        lnh1h2 == FMul(FSub(cv[0], cvs[1]), ln)
        folded == FAdd(FMul(FAdd(FMul(FAdd(FMul(lnh1h2, alpha), lnz), alpha),
                                 l0z), alpha),
                       FSub(lhs, rhs))
        g_ == FMul(cv[5], FSub(FExp(nu, d.Cardinality), 1))
    IN folded = g_

Digests6(proof) ==
    [i \in 0..5 |-> CASE i = 0 -> proof.h1 [] i = 1 -> proof.h2
                      [] i = 2 -> proof.t [] i = 3 -> proof.z
                      [] i = 4 -> proof.f [] OTHER -> proof.h]

Digests4(proof) ==
    [i \in 0..3 |-> CASE i = 0 -> proof.h1 [] i = 1 -> proof.h2
                      [] i = 2 -> proof.t [] OTHER -> proof.z]

\* VerifyLookupVector without the check of the shifted opening
VerifyLookupVectorOneOpening(proof, beta, gamma, alpha, nu) ==
    LET e1 == BatchVerifySinglePoint(Digests6(proof), proof.BatchedProof)
    IN IF e1 # "nil" THEN e1
       ELSE IF ~IdentityHolds(proof, beta, gamma, alpha, nu)
            THEN "ErrPlookupVerification"
            ELSE "nil"

\* VerifyLookupVector with the polynomial relation checked before the openings
VerifyLookupVectorIdentityFirst(proof, beta, gamma, alpha, nu) ==
    LET e1 == BatchVerifySinglePoint(Digests6(proof), proof.BatchedProof)
        e2 == BatchVerifySinglePoint(Digests4(proof), proof.BatchedProofShifted)
    IN IF Len0(proof.BatchedProof.ClaimedValues) = 6
          /\ Len0(proof.BatchedProofShifted.ClaimedValues) = 4
          /\ ~IdentityHolds(proof, beta, gamma, alpha, nu)
       THEN "ErrPlookupVerification"
       ELSE IF e1 # "nil" THEN e1
       ELSE IF e2 # "nil" THEN e2
       ELSE "nil"

VerifyLookupVector(proof, beta, gamma, alpha, nu) ==
    LET e1 == BatchVerifySinglePoint(Digests6(proof), proof.BatchedProof)
        e2 == BatchVerifySinglePoint(Digests4(proof), proof.BatchedProofShifted)
    IN IF e1 # "nil" THEN e1
       ELSE IF e2 # "nil" THEN e2
       ELSE IF ~IdentityHolds(proof, beta, gamma, alpha, nu)
            THEN "ErrPlookupVerification"
            ELSE "nil"

\* ------------------------------------------------------------------ fiat-shamir
\* the values a label of the transcript can take
Chal == 1..MaxChal

\* the recorded answers of the hash to query q
Lookup(answers, q) == {e[2] : e \in {x \in answers : x[1] = q}}

\* deriveRandomness(&fs, label, bindings...): the hash of the label, the
\* previous challenge and the bindings; a function of the query
deriveRandomness(answers, q) ==
    IF Lookup(answers, q) # {} THEN Lookup(answers, q) ELSE Chal

Record(answers, q, v) == answers \cup {<<q, v>>}

\* ------------------------------------------------------------------ state
VARIABLES
    f, t, srs,      \* the caller's vector and table, the size of the srs
    pc,             \* position in ProveLookupVector, then in the verifier's run
    err,            \* what ProveLookupVector returned
    loc,            \* the local slices and domains of ProveLookupVector
    chal,           \* beta, gamma, alpha, nu of the prover (0: not derived)
    proof,          \* the ProofLookupVector under construction / returned
    oracle,         \* the answers of the hash so far, by label
    vproof,         \* the proof handed to VerifyLookupVector
    vchal,          \* the challenges VerifyLookupVector derived in its last run
    verdict,        \* what VerifyLookupVector returned in its last run
    honest,         \* what VerifyLookupVector returned on the prover's own proof
    calls,          \* the number of runs of VerifyLookupVector
    tamper,         \* what was done to the prover's proof before the second run
    runs,           \* the number of calls of ProveLookupVector on (srs, f, t)
    first,          \* the proof returned by the first call
    e6              \* E6: the receiver z, the argument x and the call made on them

vars == <<f, t, srs, pc, err, loc, chal, proof, oracle, vproof, vchal, verdict,
          honest, calls, tamper, runs, first,
          e6>>

SrsSizes == {MaxSrs \div 2, MaxSrs}
Vals == 1..MaxVal
Slices(maxLen) == UNION {[0..(n - 1) -> Vals] : n \in 0..maxLen}

NoDomain == [Cardinality |-> 0, Generator |-> 0, FrMultiplicativeGen |-> 0]
NoBatch == [Point |-> 0, H |-> Empty, ClaimedValues |-> Empty]
ZeroProof ==
    [size |-> 0, h1 |-> Empty, h2 |-> Empty, t |-> Empty, z |-> Empty,
     f |-> Empty, h |-> Empty, BatchedProof |-> NoBatch,
     BatchedProofShifted |-> NoBatch]
NoLocals ==
    [domainSmall |-> NoDomain, domainBig |-> NoDomain,
     lf |-> Empty, lt |-> Empty, cf |-> Empty, ct |-> Empty,
     lfSortedByt |-> Empty, lh1 |-> Empty, lh2 |-> Empty,
     ch1 |-> Empty, ch2 |-> Empty, lz |-> Empty, cz |-> Empty,
     lh |-> Empty, lh0 |-> Empty, lhn |-> Empty, lh1h2 |-> Empty, ch |-> Empty]
NoChal == [beta |-> 0, gamma |-> 0, alpha |-> 0, nu |-> 0]
NoTamper == [kind |-> "none", idx |-> 0]

E2Zero == [A0 |-> 0, A1 |-> 0]
E6Zero == [B0 |-> E2Zero, B1 |-> E2Zero, B2 |-> E2Zero]
E6Idle == e6 = [z |-> E6Zero, x |-> E6Zero, res |-> E6Zero,
                aliased |-> FALSE, pc |-> "idle"]

LookupStart ==
    /\ pc = "start"
    /\ err = "running"
    /\ loc = NoLocals
    /\ chal = NoChal
    /\ proof = ZeroProof
    /\ oracle = [beta |-> {}, gamma |-> {}, alpha |-> {}, nu |-> {}]
    /\ vproof = ZeroProof
    /\ vchal = NoChal
    /\ verdict = "none"
    /\ honest = "none"
    /\ calls = 0
    /\ tamper = NoTamper
    /\ runs = 1
    /\ first = ZeroProof

Init ==
    /\ f \in Slices(MaxLenF)
    /\ t \in Slices(MaxLenT)
    /\ srs \in SrsSizes
    /\ LookupStart
    /\ E6Idle

VerifierUnchanged ==
    UNCHANGED <<vproof, vchal, verdict, honest, calls, tamper, runs, first, e6>>

\* return proof, err
ReturnError(e) ==
    /\ pc' = "error"
    /\ err' = e

\* a setup that sorts the caller's table itself before copying it
ProveSetupSortsInPlace ==
    /\ pc = "start"
    /\ f # Empty /\ t # Empty
    /\ LET domainSmall == DomainSmall(f, t)
           size == domainSmall.Cardinality
           lf == Force(PadLast(f, size))
           lt == Force(PaddedSortedTable(t, size))
           ct == Force(ToCanonical(lt, domainSmall))
           cf == Force(ToCanonical(lf, domainSmall))
           merged == Force(SortedMerge(lt, lf, size))
           lh1 == Force(Slice(merged, 0, size))
           lh2 == Force(Slice(merged, size - 1, 2 * size - 1))
           ch1 == Force(ToCanonical(lh1, domainSmall))
           ch2 == Force(ToCanonical(lh2, domainSmall))
       IN /\ Len0(ct) <= srs
          /\ proof' = [proof EXCEPT !.size = size,
                                    !.t = Commit(ct, srs).digest,
                                    !.f = Commit(cf, srs).digest,
                                    !.h1 = Commit(ch1, srs).digest,
                                    !.h2 = Commit(ch2, srs).digest]
          /\ loc' = [loc EXCEPT !.domainSmall = domainSmall,
                                !.lf = lf, !.lt = lt, !.cf = cf, !.ct = ct,
                                !.lfSortedByt = merged,
                                !.lh1 = lh1, !.lh2 = lh2,
                                !.ch1 = ch1, !.ch2 = ch2]
    /\ t' = SortTable(t)
    /\ pc' = "beta"
    /\ UNCHANGED <<f, srs, err, chal, oracle>>
    /\ VerifierUnchanged

\* ProveLookupVector, from the creation of the domains to the commitments to
\* h1 and h2
Setup(next) ==
    /\ pc = "start"
    /\ LET domainSmall == DomainSmall(f, t)
           size == domainSmall.Cardinality
       IN IF PadPanics(f, size) \/ PadPanics(t, size)
          THEN /\ pc' = "panic"
               /\ err' = "panic"
               /\ UNCHANGED <<loc, proof>>
          ELSE LET lf == Force(PadLast(f, size))
                   lt == Force(PaddedSortedTable(t, size))
                   ct == Force(ToCanonical(lt, domainSmall))
                   cf == Force(ToCanonical(lf, domainSmall))
                   merged == Force(SortedMerge(lt, lf, size))
                   lh1 == Force(Slice(merged, 0, size))
                   lh2 == Force(Slice(merged, size - 1, 2 * size - 1))
                   ch1 == Force(ToCanonical(lh1, domainSmall))
                   ch2 == Force(ToCanonical(lh2, domainSmall))
                   dt == Commit(ct, srs)
                   df == Commit(cf, srs)
                   dh1 == Commit(ch1, srs)
                   dh2 == Commit(ch2, srs)
                   sized == [proof EXCEPT !.size = size]
               IN IF dt.err # "nil"
                  THEN /\ ReturnError(dt.err)
                       /\ proof' = sized
                       /\ UNCHANGED loc
                  ELSE IF df.err # "nil"
                  THEN /\ ReturnError(df.err)
                       /\ proof' = [sized EXCEPT !.t = dt.digest]
                       /\ UNCHANGED loc
                  ELSE IF dh1.err # "nil"
                  THEN /\ ReturnError(dh1.err)
                       /\ proof' = [sized EXCEPT !.t = dt.digest,
                                                 !.f = df.digest]
                       /\ UNCHANGED loc
                  ELSE IF dh2.err # "nil"
                  THEN /\ ReturnError(dh2.err)
                       /\ proof' = [sized EXCEPT !.t = dt.digest,
                                                 !.f = df.digest,
                                                 !.h1 = dh1.digest]
                       /\ UNCHANGED loc
                  ELSE /\ pc' = next
                       /\ UNCHANGED err
                       /\ proof' = [sized EXCEPT !.t = dt.digest,
                                                 !.f = df.digest,
                                                 !.h1 = dh1.digest,
                                                 !.h2 = dh2.digest]
                       /\ loc' = [loc EXCEPT !.domainSmall = domainSmall,
                                             !.lf = lf, !.lt = lt,
                                             !.cf = cf, !.ct = ct,
                                             !.lfSortedByt = merged,
                                             !.lh1 = lh1, !.lh2 = lh2,
                                             !.ch1 = ch1, !.ch2 = ch2]
    /\ UNCHANGED <<f, t, srs, chal, oracle>>
    /\ VerifierUnchanged

ProveSetup == Setup("beta")

\* the bindings of beta with the commitments to f and t exchanged
BetaQueryExchanged(pr) == <<pr.f, pr.t, pr.h1, pr.h2>>

\* the bindings of beta: the commitments t, f, h1, h2
BetaQuery(pr) == <<pr.t, pr.f, pr.h1, pr.h2>>

\* beta, err := deriveRandomness(&fs, "beta", &proof.t, &proof.f, &proof.h1, &proof.h2)
DeriveBeta ==
    /\ pc = "beta"
    /\ \E v \in deriveRandomness(oracle.beta, BetaQuery(proof)) :
          /\ chal' = [chal EXCEPT !.beta = v]
          /\ oracle' = [oracle EXCEPT !.beta = Record(@, BetaQuery(proof), v)]
    /\ pc' = "gamma"
    /\ UNCHANGED <<f, t, srs, err, loc, proof>>
    /\ VerifierUnchanged

\* gamma, err := deriveRandomness(&fs, "gamma")
DeriveGamma ==
    /\ pc = "gamma"
    /\ \E v \in deriveRandomness(oracle.gamma, chal.beta) :
          /\ chal' = [chal EXCEPT !.gamma = v]
          /\ oracle' = [oracle EXCEPT !.gamma = Record(@, chal.beta, v)]
    /\ pc' = "z"
    /\ UNCHANGED <<f, t, srs, err, loc, proof>>
    /\ VerifierUnchanged

\* Compute to Z, commit to it
ComputeZ ==
    /\ pc = "z"
    /\ LET lz == Force(evaluateAccumulationPolynomial(loc.lf, loc.lt, loc.lh1,
                                                      loc.lh2, chal.beta,
                                                      chal.gamma))
           cz == Force(ToCanonical(lz, loc.domainSmall))
           dz == Commit(cz, srs)
       IN IF dz.err # "nil"
          THEN /\ ReturnError(dz.err)
               /\ UNCHANGED <<loc, proof>>
          ELSE /\ pc' = "num"
               /\ UNCHANGED err
               /\ loc' = [loc EXCEPT !.lz = lz, !.cz = cz]
               /\ proof' = [proof EXCEPT !.z = dz.digest]
    /\ UNCHANGED <<f, t, srs, chal, oracle>>
    /\ VerifierUnchanged

\* prepare data for computing the quotient: the four pieces of the numerator
\* on the coset of the big domain
ComputeNumerators ==
    /\ pc = "num"
    /\ LET s == loc.domainSmall.Cardinality
           domainBig == NewDomain(2 * s)
           lz_ == Force(FFTCosetBitReversed(Extend(loc.cz, 2 * s), domainBig))
           lh1_ == Force(FFTCosetBitReversed(Extend(loc.ch1, 2 * s), domainBig))
           lh2_ == Force(FFTCosetBitReversed(Extend(loc.ch2, 2 * s), domainBig))
           lt_ == Force(FFTCosetBitReversed(Extend(loc.ct, 2 * s), domainBig))
           lf_ == Force(FFTCosetBitReversed(Extend(loc.cf, 2 * s), domainBig))
       IN loc' = [loc EXCEPT
                    !.domainBig = domainBig,
                    !.lh = evaluateNumBitReversed(lz_, lh1_, lh2_, lt_, lf_,
                                                  chal.beta, chal.gamma,
                                                  domainBig),
                    !.lh0 = evaluateZStartsByOneBitReversed(lz_, domainBig),
                    !.lhn = evaluateZEndsByOneBitReversed(lz_, domainBig),
                    !.lh1h2 = evaluateOverlapH1h2BitReversed(lh1_, lh2_,
                                                             domainBig)]
    /\ pc' = "alpha"
    /\ UNCHANGED <<f, t, srs, err, chal, proof, oracle>>
    /\ VerifierUnchanged

AlphaQuery(gamma, pr) == <<gamma, pr.z>>

\* alpha, err := deriveRandomness(&fs, "alpha", &proof.z)
DeriveAlpha ==
    /\ pc = "alpha"
    /\ \E v \in deriveRandomness(oracle.alpha, AlphaQuery(chal.gamma, proof)) :
          /\ chal' = [chal EXCEPT !.alpha = v]
          /\ oracle' = [oracle EXCEPT
                          !.alpha = Record(@, AlphaQuery(chal.gamma, proof), v)]
    /\ pc' = "quotient"
    /\ UNCHANGED <<f, t, srs, err, loc, proof>>
    /\ VerifierUnchanged

\* ch := computeQuotientCanonical(...), commit to it
ComputeQuotient ==
    /\ pc = "quotient"
    /\ LET ch == Force(computeQuotientCanonical(chal.alpha, loc.lh, loc.lh0,
                                                loc.lhn, loc.lh1h2,
                                                loc.domainBig))
           dh == Commit(ch, srs)
       IN IF dh.err # "nil"
          THEN /\ ReturnError(dh.err)
               /\ UNCHANGED <<loc, proof>>
          ELSE /\ pc' = "nu"
               /\ UNCHANGED err
               /\ loc' = [loc EXCEPT !.ch = ch]
               /\ proof' = [proof EXCEPT !.h = dh.digest]
    /\ UNCHANGED <<f, t, srs, chal, oracle>>
    /\ VerifierUnchanged

NuQuery(alpha, pr) == <<alpha, pr.h>>

\* nu, err := deriveRandomness(&fs, "nu", &proof.h)
DeriveNu ==
    /\ pc = "nu"
    /\ \E v \in deriveRandomness(oracle.nu, NuQuery(chal.alpha, proof)) :
          /\ chal' = [chal EXCEPT !.nu = v]
          /\ oracle' = [oracle EXCEPT
                          !.nu = Record(@, NuQuery(chal.alpha, proof), v)]
    /\ pc' = "open"
    /\ UNCHANGED <<f, t, srs, err, loc, proof>>
    /\ VerifierUnchanged

Polys6(l) ==
    [i \in 0..5 |-> CASE i = 0 -> l.ch1 [] i = 1 -> l.ch2 [] i = 2 -> l.ct
                      [] i = 3 -> l.cz [] i = 4 -> l.cf [] OTHER -> l.ch]

Polys4(l) ==
    [i \in 0..3 |-> CASE i = 0 -> l.ch1 [] i = 1 -> l.ch2 [] i = 2 -> l.ct
                      [] OTHER -> l.cz]

\* a prover that looks its vector up in the table before it opens
BuildOpeningsAfterLookup ==
    /\ pc = "open"
    /\ IF \E i \in DOMAIN f : \A j \in DOMAIN t : f[i] # t[j]
       THEN /\ ReturnError("ErrNotInTable")
            /\ UNCHANGED proof
       ELSE /\ proof' = [proof EXCEPT
                           !.BatchedProof =
                               BatchOpenSinglePoint(Polys6(loc), chal.nu),
                           !.BatchedProofShifted =
                               BatchOpenSinglePoint(
                                   Polys4(loc),
                                   FMul(chal.nu, loc.domainSmall.Generator))]
            /\ pc' = "done"
            /\ err' = "nil"
    /\ UNCHANGED <<f, t, srs, loc, chal, oracle>>
    /\ VerifierUnchanged

\* build the opening proofs, return proof, nil
BuildOpenings ==
    /\ pc = "open"
    /\ proof' = [proof EXCEPT
                   !.BatchedProof = BatchOpenSinglePoint(Polys6(loc), chal.nu),
                   !.BatchedProofShifted =
                       BatchOpenSinglePoint(
                           Polys4(loc),
                           FMul(chal.nu, loc.domainSmall.Generator))]
    /\ pc' = "done"
    /\ err' = "nil"
    /\ UNCHANGED <<f, t, srs, loc, chal, oracle>>
    /\ VerifierUnchanged

\* ------------------------------------------------------------------ verifier runs
ProverUnchanged ==
    UNCHANGED <<f, t, srs, err, loc, chal, proof, runs, first, e6>>

\* the caller calls ProveLookupVector(srs, f, t) a second time
ProveAgain ==
    /\ pc = "done"
    /\ runs = 1
    /\ runs' = 2
    /\ first' = proof
    /\ pc' = "start"
    /\ err' = "running"
    /\ loc' = NoLocals
    /\ chal' = NoChal
    /\ proof' = ZeroProof
    /\ UNCHANGED <<f, t, srs, oracle, vproof, vchal, verdict, honest, calls,
                   tamper, e6>>

\* the caller hands the returned proof to VerifyLookupVector
Submit ==
    /\ pc = "done"
    /\ runs = 1
    /\ vproof' = proof
    /\ pc' = "verify"
    /\ ProverUnchanged
    /\ UNCHANGED <<oracle, vchal, verdict, honest, calls, tamper>>

\* one run of VerifyLookupVector(srs, vproof)
Verify ==
    /\ pc = "verify"
    /\ \E b \in deriveRandomness(oracle.beta, BetaQuery(vproof)) :
       \E g \in deriveRandomness(oracle.gamma, b) :
       \E a \in deriveRandomness(oracle.alpha, AlphaQuery(g, vproof)) :
       \E n \in deriveRandomness(oracle.nu, NuQuery(a, vproof)) :
          /\ vchal' = [beta |-> b, gamma |-> g, alpha |-> a, nu |-> n]
          /\ oracle' = [beta |-> Record(oracle.beta, BetaQuery(vproof), b),
                        gamma |-> Record(oracle.gamma, b, g),
                        alpha |-> Record(oracle.alpha, AlphaQuery(g, vproof), a),
                        nu |-> Record(oracle.nu, NuQuery(a, vproof), n)]
          /\ verdict' = VerifyLookupVector(vproof, b, g, a, n)
    /\ honest' = IF calls = 0 THEN verdict' ELSE honest
    /\ calls' = calls + 1
    /\ pc' = "verified"
    /\ ProverUnchanged
    /\ UNCHANGED <<vproof, tamper>>

\* a digest, claimed value or witness that differs from the original one
Bump(v) == FAdd(v, 1)
BumpPoly(c) == Trim([i \in 0..(IF Len0(c) = 0 THEN 0 ELSE Len0(c) - 1) |->
                        IF i = 0 THEN Bump(IF Len0(c) = 0 THEN 0 ELSE c[0])
                        ELSE c[i]])

TamperDigest(pr, k) ==
    CASE k = 0 -> [pr EXCEPT !.h1 = BumpPoly(@)]
      [] k = 1 -> [pr EXCEPT !.h2 = BumpPoly(@)]
      [] k = 2 -> [pr EXCEPT !.t = BumpPoly(@)]
      [] k = 3 -> [pr EXCEPT !.z = BumpPoly(@)]
      [] k = 4 -> [pr EXCEPT !.f = BumpPoly(@)]
      [] OTHER -> [pr EXCEPT !.h = BumpPoly(@)]

Tampered(pr, kind, k) ==
    CASE kind = "digest" -> TamperDigest(pr, k)
      [] kind = "claimed" ->
            [pr EXCEPT !.BatchedProof.ClaimedValues[k] = Bump(@)]
      [] kind = "claimedShifted" ->
            [pr EXCEPT !.BatchedProofShifted.ClaimedValues[k] = Bump(@)]
      [] kind = "witness" ->
            [pr EXCEPT !.BatchedProof.H[k] = BumpPoly(@)]
      [] kind = "witnessShifted" ->
            [pr EXCEPT !.BatchedProofShifted.H[k] = BumpPoly(@)]

TamperKinds ==
    ({"digest", "claimed", "witness"} \X (0..5))
        \cup ({"claimedShifted", "witnessShifted"} \X (0..3))

SecondRun(p2, what) ==
    /\ pc = "verified"
    /\ calls = 1
    /\ vproof' = p2
    /\ tamper' = what
    /\ pc' = "verify"
    /\ ProverUnchanged
    /\ UNCHANGED <<oracle, vchal, verdict, honest, calls>>

\* one field of the proof is changed on its way to the verifier
Tamper ==
    \E k \in TamperKinds :
        SecondRun(Tampered(proof, k[1], k[2]), [kind |-> k[1], idx |-> k[2]])

\* the same proof is verified again
Replay == SecondRun(proof, [kind |-> "replay", idx |-> 0])

\* the prover's polynomials, opened at a point x of the sender's choice (and
\* at x*g) instead of at nu (and nu*g)
Reopen ==
    \E x \in F \ {chal.nu} :
        SecondRun([proof EXCEPT
                     !.BatchedProof = BatchOpenSinglePoint(Polys6(loc), x),
                     !.BatchedProofShifted =
                         BatchOpenSinglePoint(
                             Polys4(loc),
                             FMul(x, loc.domainSmall.Generator))],
                  [kind |-> "reopen", idx |-> x])

Next ==
    \/ ProveSetup
    \/ DeriveBeta
    \/ DeriveGamma
    \/ ComputeZ
    \/ ComputeNumerators
    \/ DeriveAlpha
    \/ ComputeQuotient
    \/ DeriveNu
    \/ BuildOpenings
    \/ ProveAgain
    \/ Submit
    \/ Verify
    \/ Tamper
    \/ Replay
    \/ Reopen

Spec == Init /\ [][Next]_vars

\* ------------------------------------------------------------------ properties
\* every element of f occurs in t
AllInTable == \A i \in DOMAIN f : f[i] \in Range0(t)

\* none of the s-1 denominators of the accumulator is zero
NoZeroDenominator ==
    \A i \in 0..(Len0(loc.lt) - 2) :
        AccDenominator(loc.lh1, loc.lh2, chal.beta, chal.gamma, i) # 0

\* C1 (completeness): when every element of the non-empty f occurs in the
\* non-empty t and the challenges make no accumulator denominator zero,
\* VerifyLookupVector returns nil on the proof ProveLookupVector returned.
C1_Completeness ==
    (honest # "none" /\ AllInTable /\ NoZeroDenominator) => honest = "nil"

\* an accepted proof of a vector with two distinct values, all in an unsorted
\* table
C1_Witness ==
    /\ honest = "nil" /\ AllInTable /\ NoZeroDenominator
    /\ Len0(f) = 2 /\ f[0] # f[1]
    /\ Len0(t) = 2 /\ t[0] > t[1]

\* the opening errors of the commitment scheme
OpeningErrors == {"ErrVerifyOpeningProof", "ErrInvalidNbDigests"}

\* the fields of a proof whose change C4 is about
SingleFieldChanges ==
    {"digest", "claimed", "claimedShifted", "witness", "witnessShifted"}

\* C4 (tamper sensitivity): an accepted proof with one digest, one claimed
\* value or one opening witness changed is rejected.
C4_TamperRejected ==
    (pc = "verified" /\ calls = 2 /\ honest = "nil"
        /\ tamper.kind \in SingleFieldChanges) => verdict # "nil"

\* an accepted proof whose digest of z was changed, and the second run's error
C4_Witness ==
    /\ pc = "verified" /\ calls = 2 /\ honest = "nil"
    /\ tamper = [kind |-> "digest", idx |-> 3]
    /\ vproof.z # proof.z
    /\ verdict \in OpeningErrors

\* C5 (empty input): ProveLookupVector on an empty f or an empty t returns a
\* non-nil error; it neither panics nor returns a proof with a nil error.
C5_EmptyInputReturnsError ==
    ((Len0(f) = 0 \/ Len0(t) = 0) /\ pc # "start")
        => (pc = "error" /\ err \notin {"nil", "panic", "running"})

\* the results of the two opening checks on the proof last verified
Opening1 == BatchVerifySinglePoint(Digests6(vproof), vproof.BatchedProof)
Opening2 == BatchVerifySinglePoint(Digests4(vproof), vproof.BatchedProofShifted)
IdentityOfLastRun ==
    IdentityHolds(vproof, vchal.beta, vchal.gamma, vchal.alpha, vchal.nu)

\* C6 (distinct rejection causes): when an opening fails the error returned
\* is the opening error of the commitment scheme, whatever the polynomial
\* relation evaluates to; ErrPlookupVerification is returned exactly when both
\* openings verify and the relation does not hold.
C6_DistinctErrors ==
    pc = "verified" =>
        /\ Opening1 # "nil" => verdict = Opening1
        /\ (Opening1 = "nil" /\ Opening2 # "nil") => verdict = Opening2
        /\ verdict = "ErrPlookupVerification"
              <=> (Opening1 = "nil" /\ Opening2 = "nil" /\ ~IdentityOfLastRun)

\* a run in which an opening fails and the relation does not hold either
C6_Witness ==
    /\ pc = "verified"
    /\ Opening1 = "ErrVerifyOpeningProof"
    /\ Len0(vproof.BatchedProof.ClaimedValues) = 6
    /\ ~IdentityOfLastRun
    /\ verdict = "ErrVerifyOpeningProof"

\* s is the smallest power of two that is >= k
SmallestPowerOfTwoAtLeast(s, k) ==
    /\ \E e \in 0..MaxOrder : s = Pow2(e)
    /\ s >= k
    /\ s = 1 \/ s \div 2 < k

Max(a, b) == IF a >= b THEN a ELSE b

\* C8 (domain sizes): proof.size is the smallest power of two >= max(n+1, m),
\* and the big domain has twice that cardinality.
C8_DomainSizes ==
    (pc \notin {"start", "panic"} /\ Len0(f) > 0 /\ Len0(t) > 0) =>
        /\ SmallestPowerOfTwoAtLeast(proof.size,
                                     Max(Len0(f) + 1, Len0(t)))
        /\ loc.domainSmall # NoDomain
              => loc.domainSmall.Cardinality = proof.size
        /\ loc.domainBig # NoDomain
              => loc.domainBig.Cardinality = 2 * proof.size

\* |f| = |t| = 2: the size is rounded up from 3 to 4 and the big domain has 8
\* points
C8_Witness ==
    /\ pc = "alpha" /\ Len0(f) = 2 /\ Len0(t) = 2
    /\ proof.size = 4 /\ loc.domainBig.Cardinality = 8

\* C3 (openings at the verifier's point): VerifyLookupVector accepts only if
\* the six claimed values are the evaluations of h1, h2, t, z, f, h at the nu
\* it derived, and the four shifted ones the evaluations of h1, h2, t, z at
\* nu*g.
C3_OpeningsAtNu ==
    (pc = "verified" /\ verdict = "nil") =>
        /\ \A i \in 0..5 :
              vproof.BatchedProof.ClaimedValues[i]
                  = Eval(Digests6(vproof)[i], vchal.nu)
        /\ \A i \in 0..3 :
              vproof.BatchedProofShifted.ClaimedValues[i]
                  = Eval(Digests4(vproof)[i],
                         FMul(vchal.nu, NewDomain(vproof.size).Generator))

\* ------------------------------------------------------------------ properties (2)
\* the tables with the elements of tt in another order
Reorderings(tt) ==
    LET n == Len0(tt)
        Bijections == {p \in [0..(n - 1) -> 0..(n - 1)] :
                          \A i, j \in 0..(n - 1) : p[i] = p[j] => i = j}
    IN {[i \in 0..(n - 1) |-> tt[p[i]]] : p \in Bijections}

\* the state follows the commitment to t of a call on non-empty slices
TableCommitted == pc \notin {"start", "panic", "error"}

\* C9 as claimed: proof.t is the same for every table that is a permutation
\* of t.
C9_PermutationInvariant ==
    TableCommitted =>
        \A t2 \in Reorderings(t) : TableDigest(f, t2, srs) = proof.t

Count(a, v) == Cardinality({i \in DOMAIN a : a[i] = v})

\* the values the polynomial committed in proof.t takes on the small domain
TableValues ==
    [i \in 0..(proof.size - 1) |->
        Eval(proof.t, FExp(loc.domainSmall.Generator, i))]

\* C9 as amended: proof.t commits to the table padded to the domain's size
\* with copies of its last element as supplied and then sorted ascending;
\* tables that are permutations of each other give the same proof.t when
\* they end with the same element or fill the domain (no padding).
C9_PaddedSortedCommitment ==
    TableCommitted =>
        /\ \A i \in 0..(proof.size - 2) : TableValues[i] <= TableValues[i + 1]
        /\ \A v \in F : Count(TableValues, v) = Count(PadLast(t, proof.size), v)
        /\ \A t2 \in Reorderings(t) :
              (t2[Len0(t) - 1] = t[Len0(t) - 1] \/ Len0(t) = proof.size)
                  => TableDigest(f, t2, srs) = proof.t

\* a table of three elements supplied unsorted, padded to four
C9_Witness ==
    /\ pc = "beta"
    /\ Len0(t) = 3 /\ t[0] > t[1] /\ t[2] = t[0]
    /\ proof.size = 4
    /\ TableDigest(f, [i \in 0..2 |-> IF i = 0 THEN t[1]
                                      ELSE IF i = 1 THEN t[0] ELSE t[2]], srs)
          = proof.t

\* ------------------------------------------------------------------ properties (3)
\* the challenges of the prover's run so far, in the order of their derivation
Derived(c) ==
    /\ c.gamma # 0 => c.beta # 0
    /\ c.alpha # 0 => c.gamma # 0
    /\ c.nu # 0 => c.alpha # 0

\* c holds the answers of the hash to the four queries made on proof pr:
\* beta on (t, f, h1, h2), gamma on nothing new, alpha on z, nu on h
BoundTo(c, pr) ==
    /\ c.beta # 0 => <<<<pr.t, pr.f, pr.h1, pr.h2>>, c.beta>> \in oracle.beta
    /\ c.gamma # 0 => <<c.beta, c.gamma>> \in oracle.gamma
    /\ c.alpha # 0 => <<<<c.gamma, pr.z>>, c.alpha>> \in oracle.alpha
    /\ c.nu # 0 => <<<<c.alpha, pr.h>>, c.nu>> \in oracle.nu

\* the commitments bound to a challenge exist when it is derived
CommittedBefore ==
    /\ chal.beta # 0 =>
          /\ loc.ct # Empty /\ proof.t = Trim(loc.ct)
          /\ loc.cf # Empty /\ proof.f = Trim(loc.cf)
          /\ loc.ch1 # Empty /\ proof.h1 = Trim(loc.ch1)
          /\ loc.ch2 # Empty /\ proof.h2 = Trim(loc.ch2)
    /\ chal.alpha # 0 => (loc.cz # Empty /\ proof.z = Trim(loc.cz))
    /\ chal.nu # 0 => (loc.ch # Empty /\ proof.h = Trim(loc.ch))

\* nothing that depends on a challenge exists before it is derived
DependentAfter ==
    /\ chal.gamma = 0 => (loc.lz = Empty /\ loc.cz = Empty /\ proof.z = Empty)
    /\ chal.alpha = 0 => (loc.ch = Empty /\ proof.h = Empty)
    /\ chal.nu = 0 => (proof.BatchedProof = NoBatch
                          /\ proof.BatchedProofShifted = NoBatch)

\* a step derives at most one challenge, the next one of the schedule, and
\* never derives one again in the same run
OnceEach ==
    \/ chal' = chal
    \/ chal' = NoChal
    \/ /\ chal.beta = 0 /\ chal'.beta # 0
       /\ chal' = [chal EXCEPT !.beta = chal'.beta]
    \/ /\ chal.beta # 0 /\ chal.gamma = 0 /\ chal'.gamma # 0
       /\ chal' = [chal EXCEPT !.gamma = chal'.gamma]
    \/ /\ chal.gamma # 0 /\ chal.alpha = 0 /\ chal'.alpha # 0
       /\ chal' = [chal EXCEPT !.alpha = chal'.alpha]
    \/ /\ chal.alpha # 0 /\ chal.nu = 0 /\ chal'.nu # 0
       /\ chal' = [chal EXCEPT !.nu = chal'.nu]

\* C11 (challenge schedule): the prover derives beta, gamma, alpha, nu once
\* each in that order, beta bound to the commitments t, f, h1, h2, gamma to
\* nothing new, alpha to the commitment of z, nu to the commitment of h, each
\* after the commitments bound to it and before the values that depend on it
\* (z, the quotient h, the openings); the verifier derives its four
\* challenges with the same bindings, so that on the prover's proof it gets
\* the prover's challenges.
C11_ChallengeSchedule ==
    /\ [](Derived(chal) /\ BoundTo(chal, proof))
    /\ [](CommittedBefore /\ DependentAfter)
    /\ []((pc = "verified") =>
            (vchal.nu # 0 /\ Derived(vchal) /\ BoundTo(vchal, vproof)))
    /\ []((pc = "verified" /\ calls = 1) => vchal = chal)
    /\ [][OnceEach]_vars

\* the verifier has derived the four challenges of the prover, which are not
\* all the same, for a proof with distinct commitments to t and f
C11_Witness ==
    /\ pc = "verified" /\ calls = 1 /\ vchal = chal
    /\ chal.beta # chal.gamma /\ chal.alpha # chal.nu
    /\ proof.t # proof.f /\ proof.z # proof.h

\* ------------------------------------------------------------------ the accumulator on all challenges
\* evaluateAccumulationPolynomial on the slices ProveLookupVector builds, for
\* every pair beta, gamma of the field
InitAcc ==
    /\ f \in Slices(MaxLenF) \ {Empty}
    /\ t \in Slices(MaxLenT) \ {Empty}
    /\ srs = MaxSrs
    /\ pc = "start"
    /\ err = "running"
    /\ loc = NoLocals
    /\ chal \in [beta : F, gamma : F, alpha : {0}, nu : {0}]
    /\ proof = ZeroProof
    /\ oracle = [beta |-> {}, gamma |-> {}, alpha |-> {}, nu |-> {}]
    /\ vproof = ZeroProof
    /\ vchal = NoChal
    /\ verdict = "none"
    /\ honest = "none"
    /\ calls = 0
    /\ tamper = NoTamper
    /\ runs = 1
    /\ first = ZeroProof
    /\ E6Idle

AccFrame ==
    UNCHANGED <<f, t, srs, err, chal, proof, oracle, vproof, vchal, verdict,
                honest, calls, tamper, runs, first, e6>>

\* ProveLookupVector up to the commitments to h1 and h2, with its slices
\* lf, lt, lh1, lh2
AccBuild == Setup("built")

\* lz := evaluateAccumulationPolynomial(lf, lt, lh1, lh2, beta, gamma)
AccEvaluate ==
    /\ pc = "built"
    /\ loc' = [loc EXCEPT !.lz = Force(evaluateAccumulationPolynomial(
                                           loc.lf, loc.lt, loc.lh1, loc.lh2,
                                           chal.beta, chal.gamma))]
    /\ pc' = "acc"
    /\ AccFrame

NextAcc == AccBuild \/ AccEvaluate

SpecAcc == InitAcc /\ [][NextAcc]_vars

\* gamma(1+beta) + h[i] + beta*h[i+1]
SplitFactor(h, beta, gamma, i) ==
    FAdd(FAdd(FMul(gamma, FAdd(1, beta)), h[i]), FMul(beta, h[i + 1]))

\* the s-1 products the prover inverts are all non-zero
DenominatorsNonZero ==
    \A i \in 0..(Len0(loc.lt) - 2) :
        FMul(SplitFactor(loc.lh1, chal.beta, chal.gamma, i),
             SplitFactor(loc.lh2, chal.beta, chal.gamma, i)) # 0

\* Z[i+1] = Z[i] (1+beta)(gamma+f[i])(gamma(1+beta)+t[i]+beta t[i+1])
\*          / ((gamma(1+beta)+h1[i]+beta h1[i+1])(gamma(1+beta)+h2[i]+beta h2[i+1]))
StepRatio(i) ==
    loc.lz[i + 1] =
        FDiv(FMul(FMul(FMul(loc.lz[i], FAdd(1, chal.beta)),
                       FAdd(chal.gamma, loc.lf[i])),
                  SplitFactor(loc.lt, chal.beta, chal.gamma, i)),
             FMul(SplitFactor(loc.lh1, chal.beta, chal.gamma, i),
                  SplitFactor(loc.lh2, chal.beta, chal.gamma, i)))

\* C12 (boundary accumulator law): on the padded slices built from an f whose
\* elements all occur in t, and for beta, gamma that make the s-1
\* denominators non-zero, evaluateAccumulationPolynomial returns s values
\* with Z[0] = 1, Z[s-1] = 1 and every Z[i+1] the step ratio times Z[i].
C12_BoundaryAccumulator ==
    (pc = "acc" /\ AllInTable /\ DenominatorsNonZero) =>
        LET s == loc.domainSmall.Cardinality
        IN /\ Len0(loc.lz) = s
           /\ loc.lz[0] = 1
           /\ loc.lz[s - 1] = 1
           /\ \A i \in 0..(s - 2) : StepRatio(i)

\* an accumulator over four points that leaves 1 and comes back to it, for a
\* vector of two distinct values of an unsorted table
C12_Witness ==
    /\ pc = "acc" /\ AllInTable /\ DenominatorsNonZero
    /\ Len0(f) = 2 /\ f[0] # f[1]
    /\ Len0(t) = 3 /\ t[0] > t[1]
    /\ Len0(loc.lz) = 4
    /\ loc.lz[1] # 1 /\ loc.lz[2] # 1 /\ loc.lz[3] = 1
    /\ chal.beta > 2 /\ chal.gamma > 2

\* ------------------------------------------------------------------ properties (4)
\* h1 followed by h2 without its first entry
Joined(lh1, lh2) ==
    LET s == Len0(lh1)
    IN [i \in 0..(2 * s - 2) |-> IF i < s THEN lh1[i] ELSE lh2[i - s + 1]]

NonDecreasing(a) == \A i \in 0..(Len0(a) - 2) : a[i] <= a[i + 1]

\* C13 (sorted-merge split): h1 and h2 have s entries each, the last of h1 is
\* the first of h2, and h1 followed by h2[1..s-1] is non-decreasing, of
\* length 2s-1, with the values of the sorted padded table and of the first
\* s-1 entries of the padded vector, each as many times as there.
C13_SortedMergeSplit ==
    (loc.domainSmall # NoDomain) =>
        LET s == loc.domainSmall.Cardinality
            j == Joined(loc.lh1, loc.lh2)
        IN /\ Len0(loc.lh1) = s /\ Len0(loc.lh2) = s
           /\ loc.lh1[s - 1] = loc.lh2[0]
           /\ Len0(j) = 2 * s - 1
           /\ NonDecreasing(j)
           /\ loc.lt = SortTable(PadLast(t, s))
           /\ loc.lf = PadLast(f, s)
           /\ \A v \in F :
                 Count(j, v) = Count(loc.lt, v)
                                 + Count(Slice(loc.lf, 0, s - 1), v)

\* the split of a merge over four points, for a table that came unsorted and
\* a vector of two distinct values: h1 is not constant and ends where h2 starts
C13_Witness ==
    /\ pc = "beta"
    /\ Len0(loc.lh1) = 4 /\ Len0(loc.lh2) = 4
    /\ loc.lh1[3] = loc.lh2[0]
    /\ loc.lh1[0] # loc.lh1[3]
    /\ Len0(t) = 3 /\ t[0] > t[2]
    /\ Len0(f) = 2 /\ f[0] # f[1]

\* the denominators inverted on the coset of the big domain: x - 1,
\* x - g^(s-1) and x^s - 1 at every point x
CosetDenominatorsNonZero ==
    LET domainBig == NewDomain(2 * loc.domainSmall.Cardinality)
    IN \A i \in 0..(domainBig.Cardinality - 1) :
          /\ FSub(CosetPoint(domainBig, i), 1) # 0
          /\ FSub(CosetPoint(domainBig, i), LastPointBig(domainBig)) # 0
          /\ evaluateXnMinusOneDomainBig(domainBig)[i % 2] # 0

\* C14 (no zero inverted): for every input and every pair beta, gamma, each
\* of the s-1 denominators evaluateAccumulationPolynomial passes to
\* fr.BatchInvert is non-zero, and so is each coset denominator x - 1,
\* x - g^(s-1), x^s - 1 on the coset of the big domain.
C14_NoZeroInverted ==
    (pc = "acc") => (NoZeroDenominator /\ CosetDenominatorsNonZero)

\* ------------------------------------------------------------------ properties (5)
\* the prover's proof with its polynomials opened at x and at g*x
OpenedAt(x) ==
    [proof EXCEPT
       !.size = loc.domainSmall.Cardinality,
       !.BatchedProof = BatchOpenSinglePoint(Polys6(loc), x),
       !.BatchedProofShifted =
           BatchOpenSinglePoint(Polys4(loc),
                                FMul(x, loc.domainSmall.Generator))]

\* the verifier's folded value at x, from the values of the prover's
\* polynomials at x and g*x, is h(x)*(x^s - 1) for the prover's quotient h
FoldIsQuotientAt(x) ==
    IdentityHolds(OpenedAt(x), chal.beta, chal.gamma, chal.alpha, x)

SmallDomainPoints ==
    {FExp(loc.domainSmall.Generator, i) :
        i \in 0..(loc.domainSmall.Cardinality - 1)}

\* ((h1h2*alpha + hn)*alpha + h0)*alpha + h of the prover at the i-th point of
\* the coset, from the slices computeQuotientCanonical is given
ProverFoldedAt(i) ==
    LET i_ == BitRev(i, loc.domainBig.Cardinality)
    IN FAdd(FMul(FAdd(FMul(FAdd(FMul(loc.lh1h2[i_], chal.alpha), loc.lhn[i_]),
                           chal.alpha), loc.lh0[i_]), chal.alpha), loc.lh[i_])

\* x^s - 1
XnMinusOne(x) == FSub(FExp(x, loc.domainSmall.Cardinality), 1)

\* C15 as stated: for any challenges and any x outside the small domain the
\* verifier's folded value at x equals h(x)*(x^s - 1) for the prover's
\* quotient h.
C15_FoldIsQuotientEverywhere ==
    (pc = "nu") => \A x \in F \ SmallDomainPoints : FoldIsQuotientAt(x)

\* C15 as amended: at every point x of the coset of the big domain the
\* prover's ((h1h2*alpha + hn)*alpha + h0)*alpha + h is h(x)*(x^s - 1) for its
\* quotient h and is the value the verifier folds from the values at x and
\* g*x; when f's elements all occur in t and no accumulator denominator is
\* zero, the verifier's folded value is h(x)*(x^s - 1) at every x outside the
\* small domain.
C15_FoldMirrorsNumerator ==
    (pc = "nu") =>
        /\ \A i \in 0..(loc.domainBig.Cardinality - 1) :
              LET x == CosetPoint(loc.domainBig, i)
              IN /\ x \notin SmallDomainPoints
                 /\ ProverFoldedAt(i) = FMul(Eval(loc.ch, x), XnMinusOne(x))
                 /\ FoldIsQuotientAt(x)
        /\ (AllInTable /\ NoZeroDenominator) =>
              \A x \in F \ SmallDomainPoints : FoldIsQuotientAt(x)

\* a quotient that is not the zero polynomial, computed over eight points for
\* a vector of two distinct values all in the table
C15_Witness ==
    /\ pc = "nu"
    /\ AllInTable /\ NoZeroDenominator
    /\ loc.domainBig.Cardinality = 8
    /\ Len0(f) = 2 /\ f[0] # f[1]
    /\ Trim(loc.ch) # Empty
    /\ \E i \in 0..7 : ProverFoldedAt(i) # 0
    /\ \A x \in F \ SmallDomainPoints : FoldIsQuotientAt(x)

\* ------------------------------------------------------------------ properties (6)
\* every field of the returned proof is set
FullyPopulated ==
    /\ proof.size = loc.domainSmall.Cardinality /\ proof.size > 0
    /\ proof.t = Trim(loc.ct) /\ proof.t # Empty
    /\ proof.f = Trim(loc.cf) /\ proof.f # Empty
    /\ proof.h1 = Trim(loc.ch1) /\ proof.h1 # Empty
    /\ proof.h2 = Trim(loc.ch2) /\ proof.h2 # Empty
    /\ proof.z = Trim(loc.cz) /\ proof.z # Empty
    /\ proof.h = Trim(loc.ch) /\ loc.ch # Empty
    /\ proof.BatchedProof.Point = chal.nu
    /\ Len0(proof.BatchedProof.ClaimedValues) = 6
    /\ Len0(proof.BatchedProof.H) = 6
    /\ proof.BatchedProofShifted.Point
          = FMul(chal.nu, loc.domainSmall.Generator)
    /\ Len0(proof.BatchedProofShifted.ClaimedValues) = 4
    /\ Len0(proof.BatchedProofShifted.H) = 4

\* C16 (no ErrNotInTable from the prover): for non-empty f and t with a value
\* of f absent from t, ProveLookupVector returns only the error of a failed
\* commitment, never ErrNotInTable; when no commitment fails it runs to its
\* end and returns a fully populated proof with a nil error, whose openings
\* verify, so that a rejection can only be the verifier's
\* ErrPlookupVerification.
C16_ProverNeverErrNotInTable ==
    (f # Empty /\ t # Empty /\ ~AllInTable) =>
        /\ err \in {"running", "nil", "ErrInvalidPolynomialSize"}
        /\ pc # "panic"
        /\ (pc = "error") = (err = "ErrInvalidPolynomialSize")
        /\ (err = "nil") = (pc \in {"done", "verify", "verified"})
        /\ (err = "nil") => FullyPopulated
        /\ (honest # "none") => honest \in {"nil", "ErrPlookupVerification"}

\* a vector with a value absent from the table went through the prover with a
\* nil error and a full proof, and the verifier rejected it
C16_Witness ==
    /\ pc = "verified" /\ calls = 1
    /\ f # Empty /\ t # Empty /\ ~AllInTable
    /\ err = "nil" /\ FullyPopulated
    /\ honest = "ErrPlookupVerification"

\* ------------------------------------------------------------------ properties (7)
\* C17 (the caller's slices): no step of ProveLookupVector, and no step of
\* VerifyLookupVector, changes f or t; padding and sorting are applied to the
\* working copies lf and lt, also when t is supplied unsorted.
C17_CallerSlicesUnchanged == [][f' = f /\ t' = t]_vars

\* the prover has returned for a table supplied unsorted and in need of
\* padding: its working copy is sorted and padded, the caller's table is as
\* supplied
C17_Witness ==
    /\ pc = "done" /\ err = "nil"
    /\ Len0(t) = 3 /\ t[0] > t[1]
    /\ Len0(loc.lt) = 4 /\ NonDecreasing(loc.lt)
    /\ Len0(f) = 2 /\ Len0(loc.lf) = 4

\* ------------------------------------------------------------------ properties (8)
\* C18 (no claimed element escapes): for non-empty f and t the size s of the
\* small domain is at least |f|+1 and at least |t|; every element of f sits
\* at its own index, at most s-2, of the padded vector, whose entries
\* 0..s-2 are the ones merged with the table and multiplied into the
\* accumulator; the entry s-1, which is left out, is a padding copy of the
\* last element of f and does not influence Z.
C18_NoElementEscapes ==
    (loc.domainSmall # NoDomain) =>
        LET s == loc.domainSmall.Cardinality
            n == Len0(f)
        IN /\ s >= n + 1
           /\ s >= Len0(t)
           /\ Len0(loc.lf) = s
           /\ \A i \in DOMAIN f : i <= s - 2 /\ loc.lf[i] = f[i]
           /\ loc.lf[s - 1] = f[n - 1]
           /\ \A v \in F :
                 /\ Count(loc.lfSortedByt, v)
                       = Count(loc.lt, v) + Count(Slice(loc.lf, 0, s - 1), v)
                 /\ Count(loc.lfSortedByt, v) >= Count(f, v)
           /\ (pc = "num") =>
                 \A v \in F :
                    evaluateAccumulationPolynomial(
                        [loc.lf EXCEPT ![s - 1] = v], loc.lt, loc.lh1,
                        loc.lh2, chal.beta, chal.gamma) = loc.lz

\* a vector as long as its table: the domain has one point more than needed
\* for f alone would give, and the accumulator is computed
C18_Witness ==
    /\ pc = "num"
    /\ Len0(f) = 2 /\ Len0(t) = 2 /\ f[0] # f[1]
    /\ loc.domainSmall.Cardinality = 4
    /\ loc.lf[1] = f[1] /\ loc.lf[3] = f[1]
    /\ Count(loc.lfSortedByt, f[0]) >= 1 /\ Count(loc.lfSortedByt, f[1]) >= 1

\* ------------------------------------------------------------------ E6 (bls24-315)
\* fp: the base field, scaled down to F_7 (-4 is a non-residue and (0,1) is
\* not a cube in F_7[u]/(u^2+4), as for the curve's field); elements are
\* modelled by the value they stand for, R is the Montgomery constant
FpModulus == 7
FpR == 2
Fp == 0..(FpModulus - 1)
FpAdd(a, b) == (a + b) % FpModulus
FpSub(a, b) == (a - b + FpModulus) % FpModulus
FpMul(a, b) == (a * b) % FpModulus
FpNeg(a) == (FpModulus - a) % FpModulus
FpDouble(a) == (2 * a) % FpModulus

RECURSIVE FpExp(_, _)
FpExp(a, n) == IF n = 0 THEN 1 ELSE FpMul(a, FpExp(a, n - 1))

\* fp.Element.Inverse: the inverse, and 0 for 0
FpInverse(a) == FpExp(a, FpModulus - 2)

\* fp.Element.ToMont / FromMont: multiplication by R / by its inverse

\* fp.Element.SetString: the decimal number s (a sequence of digits), reduced
RECURSIVE DecimalValue(_)
DecimalValue(s) ==
    IF Len(s) = 0 THEN 0
    ELSE 10 * DecimalValue(SubSeq(s, 1, Len(s) - 1)) + s[Len(s)]

FpSetString(s) == DecimalValue(s) % FpModulus

\* E2 = fp[u]/(u^2 + 4), coordinate-wise and by the product rule
E2Neg(x) == [A0 |-> FpNeg(x.A0), A1 |-> FpNeg(x.A1)]
E2Add(x, y) == [A0 |-> FpAdd(x.A0, y.A0), A1 |-> FpAdd(x.A1, y.A1)]
E2Sub(x, y) == [A0 |-> FpSub(x.A0, y.A0), A1 |-> FpSub(x.A1, y.A1)]
E2Double(x) == [A0 |-> FpDouble(x.A0), A1 |-> FpDouble(x.A1)]
E2ToMont(x) == [A0 |-> FpMul(x.A0, FpR), A1 |-> FpMul(x.A1, FpR)]
E2FromMont(x) ==
    [A0 |-> FpMul(x.A0, FpInverse(FpR)), A1 |-> FpMul(x.A1, FpInverse(FpR))]
E2SetString(s1, s2) == [A0 |-> FpSetString(s1), A1 |-> FpSetString(s2)]

\* (x) * (0,1), inlined all over the file: A0 = -(2*(2*x.A1)), A1 = x.A0
MulByNonResidue(x) ==
    [A0 |-> FpNeg(FpDouble(FpDouble(x.A1))), A1 |-> x.A0]

E2Mul(x, y) ==
    [A0 |-> FpAdd(FpMul(x.A0, y.A0),
                  FpNeg(FpDouble(FpDouble(FpMul(x.A1, y.A1))))),
     A1 |-> FpAdd(FpMul(x.A0, y.A1), FpMul(x.A1, y.A0))]

E2Square(x) == E2Mul(x, x)

\* E2.Inverse: the conjugate over the norm a0^2 + 4*a1^2
E2Inverse(x) ==
    LET n == FpInverse(FpAdd(FpMul(x.A0, x.A0),
                             FpDouble(FpDouble(FpMul(x.A1, x.A1)))))
    IN [A0 |-> FpMul(x.A0, n), A1 |-> FpNeg(FpMul(x.A1, n))]

\* z.SetString(s1, ..., s6)
E6SetString(s1, s2, s3, s4, s5, s6) ==
    [B0 |-> E2SetString(s1, s2), B1 |-> E2SetString(s3, s4),
     B2 |-> E2SetString(s5, s6)]

\* z.Set(x)
E6Set(x) == [B0 |-> x.B0, B1 |-> x.B1, B2 |-> x.B2]

\* z.SetOne()
E6SetOne == [B0 |-> [A0 |-> 1, A1 |-> 0], B1 |-> E2Zero, B2 |-> E2Zero]

\* z.ToMont(), z.FromMont()
E6ToMont(z) ==
    [B0 |-> E2ToMont(z.B0), B1 |-> E2ToMont(z.B1), B2 |-> E2ToMont(z.B2)]
E6FromMont(z) ==
    [B0 |-> E2FromMont(z.B0), B1 |-> E2FromMont(z.B1),
     B2 |-> E2FromMont(z.B2)]

\* z.Add(x, y): the new value of z
E6Add(x, y) ==
    [B0 |-> E2Add(x.B0, y.B0), B1 |-> E2Add(x.B1, y.B1),
     B2 |-> E2Add(x.B2, y.B2)]

\* z.Neg(x): the new value of z; every line reads the receiver's own
\* coordinate (z.B0.Neg(&z.B0), ...), x is not read
E6Neg(z, x) == [B0 |-> E2Neg(z.B0), B1 |-> E2Neg(z.B1), B2 |-> E2Neg(z.B2)]

\* z.Sub(x, y)
E6Sub(x, y) ==
    [B0 |-> E2Sub(x.B0, y.B0), B1 |-> E2Sub(x.B1, y.B1),
     B2 |-> E2Sub(x.B2, y.B2)]

\* z.MulByGen(x)
E6MulByGen(x) ==
    [B0 |-> MulByNonResidue(x.B2), B1 |-> x.B0, B2 |-> x.B1]

\* z.Double(x)
E6Double(x) ==
    [B0 |-> E2Double(x.B0), B1 |-> E2Double(x.B1), B2 |-> E2Double(x.B2)]

\* z.Mul(x, y); z.MulAssign(x) is the same on (z, x)
E6Mul(x, y) ==
    LET b0 == E2Mul(x.B0, y.B0)
        b1 == E2Mul(x.B1, y.B1)
        b2 == E2Mul(x.B2, y.B2)
        rb0 == E2Add(MulByNonResidue(
                         E2Sub(E2Sub(E2Mul(E2Add(x.B1, x.B2),
                                           E2Add(y.B1, y.B2)), b1), b2)),
                     b0)
        zB1 == E2Add(E2Sub(E2Sub(E2Mul(E2Add(x.B0, x.B1), E2Add(y.B0, y.B1)),
                                 b0), b1),
                     MulByNonResidue(b2))
        zB2 == E2Add(E2Sub(E2Sub(E2Mul(E2Add(x.B0, x.B2), E2Add(y.B0, y.B2)),
                                 b0), b2),
                     b1)
    IN [B0 |-> rb0, B1 |-> zB1, B2 |-> zB2]

\* z.MulByE2(x, y)
E6MulByE2(x, y) ==
    [B0 |-> E2Mul(x.B0, y), B1 |-> E2Mul(x.B1, y), B2 |-> E2Mul(x.B2, y)]

\* z.Square(x); z.SquareAssign() is the same on z
E6Square(x) ==
    LET b3 == E2Double(E2Mul(x.B0, x.B1))
        b4 == E2Square(x.B2)
        b0 == E2Add(MulByNonResidue(b4), b3)
        b1 == E2Sub(b3, b4)
        b2 == E2Square(x.B0)
        b3_ == E2Square(E2Add(E2Sub(x.B0, x.B1), x.B2))
        b4_ == E2Double(E2Mul(x.B1, x.B2))
    IN [B0 |-> E2Add(MulByNonResidue(b4_), b2),
        B1 |-> b0,
        B2 |-> E2Sub(E2Add(E2Add(b1, b3_), b4_), b2)]

\* z.SquarE2(x)
E6SquarE2(x) ==
    LET v0 == E2Square(x.B0)
        v1 == E2Square(x.B1)
        v2 == E2Square(x.B2)
        v01 == E2Square(E2Add(x.B0, x.B1))
        v02 == E2Square(E2Add(x.B0, x.B2))
        v12 == E2Square(E2Add(x.B1, x.B2))
    IN [B0 |-> E2Add(MulByNonResidue(E2Sub(E2Sub(v12, v1), v2)), v0),
        B1 |-> E2Sub(E2Sub(E2Add(MulByNonResidue(v2), v01), v0), v1),
        B2 |-> E2Sub(E2Sub(E2Add(v02, v1), v0), v2)]

\* z.Square3(x)
E6Square3(x) ==
    LET s0 == E2Square(x.B0)
        s1 == E2Double(E2Mul(x.B0, x.B1))
        s2 == E2Square(E2Add(E2Sub(x.B0, x.B1), x.B2))
        s3 == E2Double(E2Mul(x.B1, x.B2))
        s4 == E2Square(x.B2)
    IN [B0 |-> E2Add(MulByNonResidue(s3), s0),
        B1 |-> E2Add(MulByNonResidue(s4), s1),
        B2 |-> E2Sub(E2Sub(E2Add(E2Add(s1, s2), s3), s0), s4)]

\* z.Inverse(x)
E6Inverse(x) ==
    LET t0 == E2Square(x.B0)
        t1 == E2Square(x.B1)
        t2 == E2Square(x.B2)
        t3 == E2Mul(x.B0, x.B1)
        t4 == E2Mul(x.B0, x.B2)
        t5 == E2Mul(x.B1, x.B2)
        c0 == E2Add(E2Neg(MulByNonResidue(t5)), t0)
        c1 == E2Sub(MulByNonResidue(t2), t3)
        c2 == E2Sub(t1, t4)
        t6 == E2Inverse(
                  E2Add(MulByNonResidue(E2Add(E2Mul(x.B2, c1),
                                              E2Mul(x.B1, c2))),
                        E2Mul(x.B0, c0)))
    IN [B0 |-> E2Mul(c0, t6), B1 |-> E2Mul(c1, t6), B2 |-> E2Mul(c2, t6)]

MaxCoord == 1
E2s == [A0 : 0..MaxCoord, A1 : 0..MaxCoord]
E6s == [B0 : E2s, B1 : E2s, B2 : E2s]

\* the values the receiver holds before the call: all coordinates equal
E6Priors ==
    {[B0 |-> [A0 |-> c, A1 |-> c], B1 |-> [A0 |-> c, A1 |-> c],
      B2 |-> [A0 |-> c, A1 |-> c]] : c \in 0..MaxCoord}

\* a receiver z and an argument x, distinct variables or the same one, before
\* a method of E6 is called on them
InitE6 ==
    /\ f = Empty
    /\ t = Empty
    /\ srs = MaxSrs
    /\ LookupStart
    /\ \E x \in E6s, aliased \in BOOLEAN :
       \E z \in (IF aliased THEN {x} ELSE E6Priors) :
          e6 = [z |-> z, x |-> x, res |-> E6Zero, aliased |-> aliased,
                pc |-> "start"]

E6Frame ==
    UNCHANGED <<f, t, srs, pc, err, loc, chal, proof, oracle, vproof, vchal,
                verdict, honest, calls, tamper, runs, first>>

\* the receiver z gets a new value; x gets it too when it is the same variable
ReceiverSet(z, call) ==
    /\ e6' = [e6 EXCEPT !.z = z,
                        !.x = IF e6.aliased THEN z ELSE @,
                        !.pc = call]
    /\ E6Frame

\* res, a third variable, gets a new value
ResultSet(r, call) ==
    /\ e6' = [e6 EXCEPT !.res = r, !.pc = call]
    /\ E6Frame

\* z.SetString(s1, s2, s3, s4, s5, s6)
SetStringCall ==
    /\ e6.pc = "start"
    /\ \E s \in [1..6 -> {<<3>>, <<1, 2>>}] :
          ReceiverSet(E6SetString(s[1], s[2], s[3], s[4], s[5], s[6]),
                      "setstring")

\* z.Set(&x)
SetCall ==
    /\ e6.pc = "start"
    /\ ReceiverSet(E6Set(e6.x), "set")

\* z.SetOne()
SetOneCall ==
    /\ e6.pc = "start"
    /\ ReceiverSet(E6SetOne, "setone")

\* z.SetRandom()
SetRandomCall ==
    /\ e6.pc = "start"
    /\ \E r \in E6s : ReceiverSet(r, "setrandom")

\* z.ToMont()
ToMontCall ==
    /\ e6.pc = "start"
    /\ ReceiverSet(E6ToMont(e6.z), "tomont")

\* z.FromMont()
FromMontCall ==
    /\ e6.pc = "start"
    /\ ReceiverSet(E6FromMont(e6.z), "frommont")

\* z.Neg(&x)
NegCall ==
    /\ e6.pc = "start"
    /\ LET z == E6Neg(e6.z, e6.x)
       IN e6' = [e6 EXCEPT !.z = z,
                           !.x = IF e6.aliased THEN z ELSE @,
                           !.pc = "neg"]
    /\ E6Frame

\* res.Add(&z, &x)
AddCall ==
    /\ e6.pc \in {"start", "neg"}
    /\ e6' = [e6 EXCEPT !.res = E6Add(e6.z, e6.x), !.pc = "add"]
    /\ E6Frame

\* res.Sub(&z, &x)
SubCall ==
    /\ e6.pc \in {"start", "neg"}
    /\ ResultSet(E6Sub(e6.z, e6.x), "sub")

\* z.MulByGen(&x)
MulByGenCall ==
    /\ e6.pc = "start"
    /\ ReceiverSet(E6MulByGen(e6.x), "mulbygen")

\* z.Double(&x)
DoubleCall ==
    /\ e6.pc = "start"
    /\ ReceiverSet(E6Double(e6.x), "double")

\* res.Mul(&z, &x)
MulCall ==
    /\ e6.pc \in {"start", "neg"}
    /\ ResultSet(E6Mul(e6.z, e6.x), "mul")

\* z.MulAssign(&x)
MulAssignCall ==
    /\ e6.pc = "start"
    /\ ReceiverSet(E6Mul(e6.z, e6.x), "mulassign")

\* res.MulByE2(&z, &x.B0)
MulByE2Call ==
    /\ e6.pc \in {"start", "neg"}
    /\ ResultSet(E6MulByE2(e6.z, e6.x.B0), "mulbye2")

\* z.Square(&x)
SquareCall ==
    /\ e6.pc = "start"
    /\ ReceiverSet(E6Square(e6.x), "square")

\* z.SquareAssign()
SquareAssignCall ==
    /\ e6.pc = "start"
    /\ ReceiverSet(E6Square(e6.z), "squareassign")

\* z.SquarE2(&x)
SquarE2Call ==
    /\ e6.pc = "start"
    /\ ReceiverSet(E6SquarE2(e6.x), "square2")

\* z.Square3(&x)
Square3Call ==
    /\ e6.pc = "start"
    /\ ReceiverSet(E6Square3(e6.x), "square3")

\* z.Inverse(&x)
InverseCall ==
    /\ e6.pc = "start"
    /\ ReceiverSet(E6Inverse(e6.x), "inverse")

NextE6 ==
    \/ SetStringCall
    \/ SetCall
    \/ SetOneCall
    \/ SetRandomCall
    \/ ToMontCall
    \/ FromMontCall
    \/ AddCall
    \/ NegCall
    \/ SubCall
    \/ MulByGenCall
    \/ DoubleCall
    \/ MulCall
    \/ MulAssignCall
    \/ MulByE2Call
    \/ SquareCall
    \/ SquareAssignCall
    \/ SquarE2Call
    \/ Square3Call
    \/ InverseCall

SpecE6 == InitE6 /\ [][NextE6]_vars

\* the additive inverse of x
E6Negated(x) ==
    LET Opp(a) == (FpModulus - a) % FpModulus
    IN [B0 |-> [A0 |-> Opp(x.B0.A0), A1 |-> Opp(x.B0.A1)],
        B1 |-> [A0 |-> Opp(x.B1.A0), A1 |-> Opp(x.B1.A1)],
        B2 |-> [A0 |-> Opp(x.B2.A0), A1 |-> Opp(x.B2.A1)]]

\* C19 (E6.Neg): for every x and every prior value of the receiver z,
\* z.Neg(x) sets z to the additive inverse of x, so that Add of the result
\* and x is the zero element, and leaves x unchanged when z and x are
\* distinct.
C19_NegNegatesArgument ==
    [][(e6.pc = "start" /\ e6'.pc = "neg") =>
          /\ e6'.z = E6Negated(e6.x)
          /\ E6Add(e6'.z, e6.x) = E6Zero
          /\ (~e6.aliased => e6'.x = e6.x)]_vars

====
